---- MODULE Spec2Model ----
(***************************************************************************)
(* framesync64: the streaming receiver state machine of                    *)
(* src/framing/src/framesync64.c.                                          *)
(*                                                                         *)
(* The receiver object (struct framesync64_s) is the record q.  The        *)
(* activations of framesync64_execute() are the sequence stack: one frame  *)
(* per active for-loop, the caller's call at the bottom and the replays    *)
(* of the detector's buffer (the recursive call of the DETECT handler)     *)
(* above it.  One action handles one sample, as one iteration of the loop  *)
(* does.  The DSP primitives (detector, NCO, filterbank, pilot             *)
(* synchronizer, packet modem) are external: the model keeps what they     *)
(* return to the state machine (detection or not, the buffer length and    *)
(* the estimates, the decoder's CRC result) as nondeterministic inputs,    *)
(* and of the NCO and the filterbank what the receiver sets in them.       *)
(*                                                                         *)
(* Four specifications share the actions: Spec (calls of a few samples,    *)
(* short detector buffers, reset() between calls), SpecBurst (one long     *)
(* call, detector buffers of any length), SpecEst (estimates that differ   *)
(* from frame to frame), SpecDebug (the debug interface).                  *)
(***************************************************************************)
EXTENDS Integers, Sequences, FiniteSets, TLC

(* ------------------------------------------------------------------ *)
(* Program constants                                                    *)
(* ------------------------------------------------------------------ *)
FRAMESYNC64_STATE_DETECTFRAME == 0
FRAMESYNC64_STATE_RXPREAMBLE  == 1
FRAMESYNC64_STATE_RXPAYLOAD   == 2

k == 2                  \* samples/symbol
m == 3                  \* filter delay (symbols)
PreambleLen == 64       \* preamble_pn[64], preamble_rx[64]
PayloadLen == 630       \* payload_rx[630]
PayloadBytes == 64      \* payload length handed to the callback
HeaderOffset == 0       \* &payload_dec[0]
PayloadOffset == 8      \* &payload_dec[8]

\* An unsigned int is held as its 32-bit pattern read in two's complement
\* (TLC's integers are 32 bits wide): 0 .. 2^31-1 are themselves and
\* 2^31 .. 2^32-1 are the negative numbers, UINT_MAX being -1.
INT_MAX == 2147483647
INT_MIN == (0 - INT_MAX) - 1
UINT_MAX == 0 - 1
\* x + 1 in unsigned arithmetic: UINT_MAX + 1 == 0
UIntInc(x) == IF x = INT_MAX THEN INT_MIN ELSE x + 1
\* x % 2 in unsigned arithmetic: the lowest bit of the pattern
UIntMod2(x) == IF x >= 0 THEN x % 2 ELSE (0 - x) % 2

NULL == "NULL"

\* samples one frame takes when a symbol comes out of every k-th sample
FrameSamples == k * (PreambleLen + 2 * m + PayloadLen)

(* ------------------------------------------------------------------ *)
(* Bounds of the model                                                  *)
(* ------------------------------------------------------------------ *)
MaxN == 2               \* longest sample array the caller passes to execute()
MaxFrames == 2          \* detections the detector reports in one behaviour
MaxBuf == 2             \* longest short buffer the detector hands back
MaxPos == 4             \* samples of a frame the trace numbers: 1 .. MaxPos-1

\* what q->callback can be: no callback, or a user function
Callbacks == {NULL, "cb"}

\* an unsigned int read before it was ever written (malloc'ed memory):
\* representatives of zero, odd, even and all-ones
GarbageUInt == {0, 1, 2, UINT_MAX}

\* qpacketmodem_decode(): did the payload pass its CRC?
DecodeResults == {0, 1}

\* qdetector_cccf_get_buf_len(): the buffer lengths the detector may report.
\* The source bounds them in no way: short ones, and ones as long as a frame.
BufLens == (1..MaxBuf) \cup {FrameSamples - 1, FrameSamples}

\* qdetector_cccf_get_tau/gamma/dphi/phi(): the detector's estimates.  The
\* floats are held as integers: tau in quarters of a sample, gamma as the
\* linear gain (a power of ten), dphi and phi in units of phase.
NominalEst == [tau |-> 0, gamma |-> 1, dphi |-> 0, phi |-> 0]
Estimates == {[tau |-> -1, gamma |-> 10,  dphi |-> 1, phi |-> 2],
              [tau |-> 1,  gamma |-> 100, dphi |-> 2, phi |-> 1]}

\* qdetector_cccf_execute() and qdetector_cccf_get_buf_len(): the detector
\* returns NULL, or its buffer, of one of the lengths above
NoDetection == [v |-> NULL, buf_len |-> 0, est |-> NominalEst]
Detections == [v : {"buf"}, buf_len : BufLens, est : {NominalEst}]
DetectorOutcomes == {NoDetection} \cup Detections

\* the fields of the malloc'ed object that framesync64_create() leaves
\* unwritten besides mf_counter and payload_valid.  The estimates and
\* pfb_index are zero or not; the statistics, which nothing reads but the
\* callback they are written for, have one value that no frame produces.
Garbage ==
    {[tau_hat |-> 0, gamma_hat |-> 0, dphi_hat |-> 0, phi_hat |-> 0,
      pfb_index |-> 0, rssi |-> -9, cfo |-> -9, num_framesyms |-> -9],
     [tau_hat |-> 3, gamma_hat |-> -7, dphi_hat |-> 5, phi_hat |-> -3,
      pfb_index |-> UINT_MAX, rssi |-> -9, cfo |-> -9, num_framesyms |-> -9]}

(* ------------------------------------------------------------------ *)
(* The NCO and the matched filter, as far as the receiver sets and      *)
(* reads them: the NCO's frequency and phase, the filter's scale.       *)
(* ------------------------------------------------------------------ *)
nco_crcf_reset(_nco) == [frequency |-> 0, phase |-> 0]
nco_crcf_set_frequency(_nco, _f) == [_nco EXCEPT !.frequency = _f]
nco_crcf_set_phase(_nco, _phi) == [_nco EXCEPT !.phase = _phi]
nco_crcf_step(_nco) == [_nco EXCEPT !.phase = @ + _nco.frequency]
nco_crcf_get_frequency(_nco) == _nco.frequency
\* a scale is the fraction num/den
firpfb_crcf_create_rnyquist == [scale |-> [num |-> 1, den |-> 1]]
firpfb_crcf_set_scale(_mf, _scale) == [_mf EXCEPT !.scale = _scale]
firpfb_crcf_reset(_mf) == _mf

\* 0.5f / gamma
HalfOver(_gamma) == [num |-> 1, den |-> 2 * _gamma]

\* log10f() on the powers of ten
RECURSIVE Log10(_)
Log10(_x) == IF _x < 10 THEN 0 ELSE 1 + Log10(_x \div 10)

\* framestats.num_framesyms
NumFrameSyms == 600

(* ------------------------------------------------------------------ *)
(* State                                                                *)
(* ------------------------------------------------------------------ *)
VARIABLES
    q,              \* the framesync64 object
    stack,          \* active framesync64_execute() loops: [i, n, fed, inorder]
    last,           \* the step taken last
    ndetect,        \* detections so far
    nframes,        \* frames whose payload was decoded so far
    cb_log,         \* callback invocations so far, with their arguments
    cb_frame,       \* callback invocations since the last detection
    dec,            \* the last run of pilot sync + decoder: what it ran on
    payload_stored, \* writes to payload_rx since the last detection or reset
    payload_inorder,\* ... and each went to the index after the one before
    abandoned,      \* frames an external reset() has abandoned
    cb_order,       \* for each callback invocation, the detection it delivers
    call_frames,    \* frames decoded since the caller's current call began
    trace,          \* what the handlers did since the seeking ended: the
                    \* estimates the detector had at the detection, samples
                    \* stepped (MaxPos: that many or more), writes to
                    \* preamble_rx, and of the last step
                    \* whether a symbol came out, the filter index it used,
                    \* the entry of preamble_rx it wrote
    dbg,            \* of the last step: the sample was pushed to debug_x,
                    \* it was one of the caller's array, debug_print()
                    \* wrote its file, it wrote its diagnostic
    ref             \* the same stream handled by a single execute() call

vars == <<q, stack, last, ndetect, nframes, cb_log, cb_frame, dec,
          payload_stored, payload_inorder, abandoned, cb_order, call_frames,
          trace, dbg, ref>>

\* a reset that forgets payload_counter
framesync64_reset_keeps_payload_counter(_q) ==
    [_q EXCEPT !.state            = FRAMESYNC64_STATE_DETECTFRAME,
               !.preamble_counter = 0]

(* ------------------------------------------------------------------ *)
(* framesync64_reset(): lines 199-217.  mf_counter is not touched.      *)
(* ------------------------------------------------------------------ *)
framesync64_reset(_q) ==
    [_q EXCEPT !.mixer            = nco_crcf_reset(@),
               !.mf               = firpfb_crcf_reset(@),
               !.state            = FRAMESYNC64_STATE_DETECTFRAME,
               !.preamble_counter = 0,
               !.payload_counter  = 0,
               !.framestats.evm   = 0]

(* ------------------------------------------------------------------ *)
(* framesync64_create(): lines 115-168.  The object is malloc'ed;       *)
(* callback is set, the filter and the NCO are created, the debug flags *)
(* are cleared, reset() sets state, the two counters and evm;           *)
(* mf_counter, payload_valid, the estimates, pfb_index and the other    *)
(* statistics are left as they came from malloc.                        *)
(* ------------------------------------------------------------------ *)
framesync64_create(_callback, _mf_garbage, _pv_garbage, _mem) ==
    framesync64_reset(
        [callback         |-> _callback,
         state            |-> FRAMESYNC64_STATE_DETECTFRAME,
         preamble_counter |-> 0,
         payload_counter  |-> 0,
         mf_counter       |-> _mf_garbage,
         payload_valid    |-> _pv_garbage,
         tau_hat          |-> _mem.tau_hat,
         gamma_hat        |-> _mem.gamma_hat,
         dphi_hat         |-> _mem.dphi_hat,
         phi_hat          |-> _mem.phi_hat,
         pfb_index        |-> _mem.pfb_index,
         mf               |-> firpfb_crcf_create_rnyquist,
         mixer            |-> nco_crcf_reset([frequency |-> 0, phase |-> 0]),
         framestats       |-> [evm |-> 0, rssi |-> _mem.rssi, cfo |-> _mem.cfo,
                               num_framesyms |-> _mem.num_framesyms],
         debug_enabled         |-> 0,
         debug_objects_created |-> 0])

(* ------------------------------------------------------------------ *)
(* framesync64_step(): lines 297-325.  Returns the object, the          *)
(* sample_available flag, and the filterbank index it ran the filter    *)
(* with.                                                                *)
(* ------------------------------------------------------------------ *)
framesync64_step(_q) ==
    LET incremented == UIntInc(_q.mf_counter)
        sample_available == IF incremented = 1 THEN 1 ELSE 0
    IN  [q |-> [_q EXCEPT !.mixer      = nco_crcf_step(@),
                          !.mf_counter = UIntMod2(incremented)],
         sample_available |-> sample_available,
         pfb_index |-> _q.pfb_index]

(* ------------------------------------------------------------------ *)
(* What one handler call did, besides changing the object: the replay   *)
(* it asks for, the buffer entries it wrote, whether pilot sync and     *)
(* decoder ran and on how many symbols, whether the callback was        *)
(* invoked and with what.                                               *)
(* ------------------------------------------------------------------ *)
NoArgs == [header |-> -1, header_valid |-> -1, payload |-> -1,
           payload_len |-> -1, payload_valid |-> -1, framestats |-> -1,
           state |-> -1, payload_counter |-> -1]

Outcome(_q) ==
    [q              |-> _q,
     buf_len        |-> 0,      \* > 0: execute(v, buf_len) is called
     preamble_wrote |-> -1,     \* index of preamble_rx written, or -1
     payload_wrote  |-> -1,     \* index of payload_rx written, or -1
     decoded        |-> FALSE,  \* qpilotsync_execute + qpacketmodem_decode ran
     decoded_on     |-> -1,     \* payload_counter when they ran
     called         |-> FALSE,  \* the callback was invoked
     args           |-> NoArgs,
     stepped        |-> FALSE,  \* framesync64_step() ran
     symbol         |-> FALSE,  \* ... and a symbol came out of it
     pfb_index      |-> -1]     \* ... of the filter of this index

\* a DETECT handler that hands over to the wrong state
framesync64_execute_seekpn_to_payload(_q, _det) ==
    IF _det.v # NULL
    THEN [Outcome([_q EXCEPT !.state = FRAMESYNC64_STATE_RXPAYLOAD])
            EXCEPT !.buf_len = _det.buf_len]
    ELSE Outcome(_q)

\* a DETECT handler that replays the buffer without leaving DETECT
framesync64_execute_seekpn_keeps_state(_q, _det) ==
    IF _det.v # NULL
    THEN [Outcome(_q) EXCEPT !.buf_len = _det.buf_len]
    ELSE Outcome(_q)

\* a DETECT handler that leaves DETECT whatever the detector returned
framesync64_execute_seekpn_unchecked(_q, _det) ==
    [Outcome([_q EXCEPT !.state = FRAMESYNC64_STATE_RXPREAMBLE])
        EXCEPT !.buf_len = _det.buf_len]

\* the hand-off as framesync64_execute_seekpn() runs it, with two values a
\* slip could get wrong left open: the gain kept as gamma_hat, the
\* filterbank index set
seekpn_variant(_q, _det, _gamma, _pfb_index) ==
    IF _det.v # NULL
    THEN LET estimated ==
                [_q EXCEPT !.tau_hat   = _det.est.tau,
                           !.gamma_hat = _gamma,
                           !.dphi_hat  = _det.est.dphi,
                           !.phi_hat   = _det.est.phi]
             set ==
                [estimated EXCEPT
                    !.mf        = firpfb_crcf_set_scale(@,
                                      HalfOver(estimated.gamma_hat)),
                    !.pfb_index = _pfb_index,
                    !.mixer     = nco_crcf_set_phase(
                                      nco_crcf_set_frequency(@,
                                          estimated.dphi_hat),
                                      estimated.phi_hat)]
         IN  [Outcome([set EXCEPT !.state = FRAMESYNC64_STATE_RXPREAMBLE])
                EXCEPT !.buf_len = _det.buf_len]
    ELSE Outcome(_q)

\* a hand-off that keeps the gain it had
framesync64_execute_seekpn_stale_gain(_q, _det) ==
    seekpn_variant(_q, _det, _q.gamma_hat, 0)

\* a hand-off that picks the filter of the bank by the sign of tau_hat
framesync64_execute_seekpn_pfb_by_tau(_q, _det) ==
    seekpn_variant(_q, _det, _det.est.gamma,
                   IF _det.est.tau < 0 THEN 1 ELSE 0)

(* ------------------------------------------------------------------ *)
(* framesync64_execute_seekpn(): lines 261-291.  _det is the detector   *)
(* after qdetector_cccf_execute(): the pointer v it returned and the    *)
(* buffer length it reports.                                            *)
(* ------------------------------------------------------------------ *)
framesync64_execute_seekpn(_q, _det) ==
    IF _det.v # NULL
    THEN LET estimated ==
                [_q EXCEPT !.tau_hat   = _det.est.tau,
                           !.gamma_hat = _det.est.gamma,
                           !.dphi_hat  = _det.est.dphi,
                           !.phi_hat   = _det.est.phi]
             set ==
                [estimated EXCEPT
                    !.mf        = firpfb_crcf_set_scale(@,
                                      HalfOver(estimated.gamma_hat)),
                    !.pfb_index = 0,
                    !.mixer     = nco_crcf_set_phase(
                                      nco_crcf_set_frequency(@,
                                          estimated.dphi_hat),
                                      estimated.phi_hat)]
         IN  [Outcome([set EXCEPT !.state = FRAMESYNC64_STATE_RXPREAMBLE])
                EXCEPT !.buf_len = _det.buf_len]
    ELSE Outcome(_q)

\* the preamble step as framesync64_execute_rxpreamble() runs it, with the
\* numbers a slip could get wrong left open: the first symbol kept, the
\* offset of the entry it goes to, the count that ends the preamble
rxpreamble_variant(_q, _first, _offset, _end) ==
    LET s  == framesync64_step(_q)
        c  == s.q.preamble_counter
        c1 == UIntInc(c)
    IN  IF s.sample_available = 1
        THEN [Outcome([s.q EXCEPT
                        !.preamble_counter = c1,
                        !.state = IF c1 = _end
                                  THEN FRAMESYNC64_STATE_RXPAYLOAD
                                  ELSE @])
                EXCEPT !.preamble_wrote = IF c >= _first THEN c - _offset ELSE -1,
                       !.stepped = TRUE, !.symbol = TRUE,
                       !.pfb_index = s.pfb_index]
        ELSE [Outcome(s.q) EXCEPT !.stepped = TRUE, !.pfb_index = s.pfb_index]

\* end the preamble one symbol late
framesync64_execute_rxpreamble_late(_q) ==
    rxpreamble_variant(_q, 2 * m, 2 * m, PreambleLen + 2 * m + 1)

\* keep the symbols from the seventh on
framesync64_execute_rxpreamble_skips_one(_q) ==
    rxpreamble_variant(_q, 2 * m + 1, 2 * m, PreambleLen + 2 * m)

(* ------------------------------------------------------------------ *)
(* framesync64_execute_rxpreamble(): lines 331-355.                     *)
(* ------------------------------------------------------------------ *)
framesync64_execute_rxpreamble(_q) ==
    LET s  == framesync64_step(_q)
        c  == s.q.preamble_counter
        c1 == UIntInc(c)
    IN  IF s.sample_available = 1
        THEN [Outcome([s.q EXCEPT
                        !.preamble_counter = c1,
                        !.state = IF c1 = PreambleLen + 2 * m
                                  THEN FRAMESYNC64_STATE_RXPAYLOAD
                                  ELSE @])
                EXCEPT !.preamble_wrote = IF c >= 2 * m THEN c - 2 * m ELSE -1,
                       !.stepped = TRUE, !.symbol = TRUE,
                       !.pfb_index = s.pfb_index]
        ELSE [Outcome(s.q) EXCEPT !.stepped = TRUE, !.pfb_index = s.pfb_index]

\* the end of frame as framesync64_execute_rxpayload() runs it, with the
\* tests and the order a slip could get wrong left open: the count that
\* ends the frame, whether a NULL callback is tested for, whether a failed
\* CRC still reaches the callback, whether reset() runs before the
\* statistics and the callback, whether it runs after them
rxpayload_variant(_q, _crc, _end, _null_tested, _on_failure,
                  _reset_first, _reset_last) ==
    LET s  == framesync64_step(_q)
        c  == s.q.payload_counter
        c1 == UIntInc(c)
        counted == [s.q EXCEPT !.payload_counter = c1]
        decoded == [counted EXCEPT !.payload_valid = _crc]
        early   == IF _reset_first THEN framesync64_reset(decoded) ELSE decoded
        invoke  == /\ (_null_tested => early.callback # NULL)
                   /\ (_on_failure \/ early.payload_valid # 0)
        stats   == [early EXCEPT
                      !.framestats.evm  = 0,
                      !.framestats.rssi = 20 * Log10(early.gamma_hat),
                      !.framestats.cfo  = nco_crcf_get_frequency(early.mixer),
                      !.framestats.num_framesyms = NumFrameSyms]
        shown   == IF invoke THEN stats ELSE early
        done    == IF _reset_last THEN framesync64_reset(shown) ELSE shown
    IN  IF s.sample_available = 1
        THEN IF c1 = _end
             THEN [Outcome(done) EXCEPT
                     !.payload_wrote = c,
                     !.decoded       = TRUE,
                     !.decoded_on    = c1,
                     !.called        = invoke,
                     !.args          =
                        IF invoke
                        THEN [header          |-> HeaderOffset,
                              header_valid    |-> shown.payload_valid,
                              payload         |-> PayloadOffset,
                              payload_len     |-> PayloadBytes,
                              payload_valid   |-> shown.payload_valid,
                              framestats      |-> shown.framestats,
                              state           |-> shown.state,
                              payload_counter |-> shown.payload_counter]
                        ELSE NoArgs,
                     !.stepped = TRUE, !.symbol = TRUE,
                     !.pfb_index = s.pfb_index]
             ELSE [Outcome(counted) EXCEPT !.payload_wrote = c,
                     !.stepped = TRUE, !.symbol = TRUE,
                     !.pfb_index = s.pfb_index]
        ELSE [Outcome(s.q) EXCEPT !.stepped = TRUE, !.pfb_index = s.pfb_index]

\* decode one symbol early
framesync64_execute_rxpayload_early(_q, _crc) ==
    rxpayload_variant(_q, _crc, PayloadLen - 1, TRUE, TRUE, FALSE, TRUE)

\* invoke the callback without testing it for NULL
framesync64_execute_rxpayload_null_untested(_q, _crc) ==
    rxpayload_variant(_q, _crc, PayloadLen, FALSE, TRUE, FALSE, TRUE)

\* deliver the frame only if its CRC passed
framesync64_execute_rxpayload_valid_only(_q, _crc) ==
    rxpayload_variant(_q, _crc, PayloadLen, TRUE, FALSE, FALSE, TRUE)

\* leave the receiver where the frame ended
framesync64_execute_rxpayload_no_reset(_q, _crc) ==
    rxpayload_variant(_q, _crc, PayloadLen, TRUE, TRUE, FALSE, FALSE)

\* reset the receiver before the statistics and the callback
framesync64_execute_rxpayload_reset_first(_q, _crc) ==
    rxpayload_variant(_q, _crc, PayloadLen, TRUE, TRUE, TRUE, FALSE)

\* decode one symbol late
framesync64_execute_rxpayload_late(_q, _crc) ==
    rxpayload_variant(_q, _crc, PayloadLen + 1, TRUE, TRUE, FALSE, TRUE)

(* ------------------------------------------------------------------ *)
(* framesync64_execute_rxpayload(): lines 361-414.  _crc is what        *)
(* qpacketmodem_decode() returns if it runs.  The callback's arguments  *)
(* are kept with the state and payload_counter the object has while the *)
(* callback runs.                                                       *)
(* ------------------------------------------------------------------ *)
framesync64_execute_rxpayload(_q, _crc) ==
    LET s  == framesync64_step(_q)
        c  == s.q.payload_counter
        c1 == UIntInc(c)
        counted == [s.q EXCEPT !.payload_counter = c1]
        decoded == [counted EXCEPT !.payload_valid = _crc]
        stats   == [decoded EXCEPT
                      !.framestats.evm  = 0,
                      !.framestats.rssi = 20 * Log10(decoded.gamma_hat),
                      !.framestats.cfo  = nco_crcf_get_frequency(decoded.mixer),
                      !.framestats.num_framesyms = NumFrameSyms]
        shown   == IF decoded.callback # NULL THEN stats ELSE decoded
    IN  IF s.sample_available = 1
        THEN IF c1 = PayloadLen
             THEN [Outcome(framesync64_reset(shown)) EXCEPT
                     !.payload_wrote = c,
                     !.decoded       = TRUE,
                     !.decoded_on    = c1,
                     !.called        = (decoded.callback # NULL),
                     !.args          =
                        IF decoded.callback # NULL
                        THEN [header          |-> HeaderOffset,
                              header_valid    |-> shown.payload_valid,
                              payload         |-> PayloadOffset,
                              payload_len     |-> PayloadBytes,
                              payload_valid   |-> shown.payload_valid,
                              framestats      |-> shown.framestats,
                              state           |-> shown.state,
                              payload_counter |-> shown.payload_counter]
                        ELSE NoArgs,
                     !.stepped = TRUE, !.symbol = TRUE,
                     !.pfb_index = s.pfb_index]
             ELSE [Outcome(counted) EXCEPT !.payload_wrote = c,
                     !.stepped = TRUE, !.symbol = TRUE,
                     !.pfb_index = s.pfb_index]
        ELSE [Outcome(s.q) EXCEPT !.stepped = TRUE, !.pfb_index = s.pfb_index]

(* ------------------------------------------------------------------ *)
(* framesync64_debug_enable(): lines 417-433 (DEBUG_FRAMESYNC64 is 1).  *)
(* ------------------------------------------------------------------ *)
framesync64_debug_enable(_q) ==
    IF _q.debug_objects_created # 0
    THEN _q
    ELSE [_q EXCEPT !.debug_enabled = 1, !.debug_objects_created = 1]

(* ------------------------------------------------------------------ *)
(* framesync64_debug_disable(): lines 436-444.                          *)
(* ------------------------------------------------------------------ *)
framesync64_debug_disable(_q) == [_q EXCEPT !.debug_enabled = 0]

(* ------------------------------------------------------------------ *)
(* framesync64_debug_print(): lines 448-528.  Returns the object, and   *)
(* whether the file was written, whether the diagnostic was.            *)
(* ------------------------------------------------------------------ *)
framesync64_debug_print(_q) ==
    IF _q.debug_objects_created = 0
    THEN [q |-> _q, file |-> FALSE, diagnostic |-> TRUE]
    ELSE [q |-> _q, file |-> TRUE, diagnostic |-> FALSE]

(* ------------------------------------------------------------------ *)
(* The switch of framesync64_execute(): lines 233-249.                  *)
(* ------------------------------------------------------------------ *)
Dispatch(_q, _det, _crc) ==
    CASE _q.state = FRAMESYNC64_STATE_DETECTFRAME ->
            framesync64_execute_seekpn(_q, _det)
      [] _q.state = FRAMESYNC64_STATE_RXPREAMBLE ->
            framesync64_execute_rxpreamble(_q)
      [] _q.state = FRAMESYNC64_STATE_RXPAYLOAD ->
            framesync64_execute_rxpayload(_q, _crc)

\* a loop that starts at the second entry
framesync64_execute_from_one(_q, _len, _n) ==
    [q    |-> _q,
     loop |-> [i |-> 1, n |-> _n, len |-> _len, fed |-> 0, inorder |-> TRUE]]

\* a call that restarts the symbol timer
framesync64_execute_restarts_timer(_q, _len, _n) ==
    [q    |-> [_q EXCEPT !.mf_counter = 0],
     loop |-> [i |-> 0, n |-> _n, len |-> _len, fed |-> 0, inorder |-> TRUE]]

(* ------------------------------------------------------------------ *)
(* framesync64_execute(), entry: lines 223-228.  The call leaves the    *)
(* object alone and starts a loop at i = 0 over _n entries of an array  *)
(* that holds _len samples.  fed counts the entries handed to a         *)
(* handler, inorder says each was the one after the one before.         *)
(* ------------------------------------------------------------------ *)
framesync64_execute(_q, _len, _n) ==
    [q    |-> _q,
     loop |-> [i |-> 0, n |-> _n, len |-> _len, fed |-> 0, inorder |-> TRUE]]

\* the loop's step: entry i has been handed to a handler
Handed(_f) == [_f EXCEPT !.fed = @ + 1, !.inorder = @ /\ (_f.i = _f.fed)]
\* ... and the handler has returned: i++
Advanced(_f) == [_f EXCEPT !.i = @ + 1]

Top == stack[Len(stack)]
Below == SubSeq(stack, 1, Len(stack) - 1)
InLoop == stack # <<>> /\ Top.i < Top.n

(* ------------------------------------------------------------------ *)
(* Initial state: framesync64_create() has returned, no call is active. *)
(* ------------------------------------------------------------------ *)
NoDecode == [on |-> -1, stored |-> -1, inorder |-> TRUE, crc |-> -1]

NoDbg == [pushed |-> FALSE, caller |-> FALSE, file |-> FALSE,
          diagnostic |-> FALSE]

NoTrace == [est |-> NominalEst, frame_pos |-> 0, symbol |-> FALSE,
            pfb_index |-> -1, preamble_stored |-> 0,
            preamble_inorder |-> TRUE, preamble_wrote |-> -1]

Init ==
    /\ \E cb \in Callbacks, g \in GarbageUInt, pv \in DecodeResults,
          mem \in Garbage :
          q = framesync64_create(cb, g, pv, mem)
    /\ stack = <<>>
    /\ last = "create"
    /\ ndetect = 0
    /\ nframes = 0
    /\ cb_log = <<>>
    /\ cb_frame = 0
    /\ dec = NoDecode
    /\ payload_stored = 0
    /\ payload_inorder = TRUE
    /\ abandoned = 0
    /\ cb_order = <<>>
    /\ call_frames = 0
    /\ trace = NoTrace
    /\ dbg = NoDbg
    /\ ref = [q |-> q, cb_log |-> <<>>]

(* ------------------------------------------------------------------ *)
(* One iteration of the loop of framesync64_execute() (lines 228-250):  *)
(* entry i of the array goes to the handler of the current state.       *)
(* A handler that returns lets the loop go on to i+1; the DETECT        *)
(* handler that detects calls framesync64_execute() on the detector's   *)
(* buffer first, and the loop goes on when that call has returned.      *)
(* ------------------------------------------------------------------ *)
HandleSample(_det, _crc, _tag) ==
    LET r      == Dispatch(q, _det, _crc)
        rr     == Dispatch(ref.q, _det, _crc)
        enter  == r.buf_len > 0
        stored == IF enter THEN 0
                  ELSE IF r.payload_wrote # -1 THEN payload_stored + 1
                  ELSE payload_stored
        inord  == IF enter THEN TRUE
                  ELSE IF r.payload_wrote # -1
                       THEN payload_inorder /\ r.payload_wrote = payload_stored
                  ELSE payload_inorder
        call   == framesync64_execute(r.q, r.buf_len, r.buf_len)
        rcall  == framesync64_execute(rr.q, rr.buf_len, rr.buf_len)
    IN  /\ InLoop
        /\ IF r.buf_len > 0
           THEN /\ q' = call.q
                /\ stack' = Append(Append(Below, Handed(Top)), call.loop)
           ELSE /\ q' = r.q
                /\ stack' = Append(Below, Advanced(Handed(Top)))
        /\ ref' = [q      |-> IF rr.buf_len > 0 THEN rcall.q ELSE rr.q,
                   cb_log |-> IF rr.called THEN Append(ref.cb_log, rr.args)
                              ELSE ref.cb_log]
        /\ last' = IF r.buf_len > 0 THEN "detect"
                   ELSE IF r.decoded THEN "frame" ELSE _tag
        /\ ndetect' = IF r.buf_len > 0 THEN ndetect + 1 ELSE ndetect
        /\ nframes' = IF r.decoded THEN nframes + 1 ELSE nframes
        /\ cb_log' = IF r.called THEN Append(cb_log, r.args) ELSE cb_log
        /\ cb_frame' = IF r.buf_len > 0 THEN 0
                       ELSE IF r.called THEN cb_frame + 1 ELSE cb_frame
        /\ payload_stored' = stored
        /\ payload_inorder' = inord
        /\ dec' = IF r.decoded
                  THEN [on |-> r.decoded_on, stored |-> stored, inorder |-> inord,
                        crc |-> _crc]
                  ELSE dec
        /\ cb_order' = IF r.called THEN Append(cb_order, ndetect) ELSE cb_order
        /\ call_frames' = IF r.decoded THEN call_frames + 1 ELSE call_frames
        /\ trace' = IF r.stepped
                    THEN [est              |-> trace.est,
                          frame_pos        |-> IF trace.frame_pos < MaxPos
                                               THEN trace.frame_pos + 1
                                               ELSE MaxPos,
                          symbol           |-> r.symbol,
                          pfb_index        |-> r.pfb_index,
                          preamble_stored  |->
                             IF r.preamble_wrote # -1
                             THEN trace.preamble_stored + 1
                             ELSE trace.preamble_stored,
                          preamble_inorder |->
                             IF r.preamble_wrote # -1
                             THEN /\ trace.preamble_inorder
                                  /\ r.preamble_wrote = trace.preamble_stored
                             ELSE trace.preamble_inorder,
                          preamble_wrote   |-> r.preamble_wrote]
                    ELSE IF enter THEN [NoTrace EXCEPT !.est = _det.est]
                    ELSE NoTrace
        /\ dbg' = [NoDbg EXCEPT !.pushed = (q.debug_enabled # 0),
                                !.caller = (Len(stack) = 1)]
        /\ UNCHANGED abandoned

\* case FRAMESYNC64_STATE_DETECTFRAME: the detector reports nothing
ExecuteSeekpn ==
    /\ q.state = FRAMESYNC64_STATE_DETECTFRAME
    /\ HandleSample(NoDetection, 0, "seekpn")

\* case FRAMESYNC64_STATE_DETECTFRAME: the detector reports a frame, its
\* outcome one of _dets
SeekpnDetect(_dets) ==
    /\ q.state = FRAMESYNC64_STATE_DETECTFRAME
    /\ ndetect < MaxFrames
    /\ \E det \in _dets : HandleSample(det, 0, "seekpn")

\* ... with a buffer of any of the lengths
ExecuteSeekpnDetect == SeekpnDetect(Detections)

\* ... with a buffer of a few samples
ExecuteSeekpnDetectShort ==
    SeekpnDetect({det \in Detections : det.buf_len <= MaxBuf})

\* case FRAMESYNC64_STATE_RXPREAMBLE
ExecuteRxpreamble ==
    /\ q.state = FRAMESYNC64_STATE_RXPREAMBLE
    /\ HandleSample(NoDetection, 0, "rxpreamble")

\* case FRAMESYNC64_STATE_RXPAYLOAD
ExecuteRxpayload ==
    /\ q.state = FRAMESYNC64_STATE_RXPAYLOAD
    /\ \E crc \in DecodeResults : HandleSample(NoDetection, crc, "rxpayload")

\* case FRAMESYNC64_STATE_RXPAYLOAD, the frames passing and failing their
\* CRC in turn
ExecuteRxpayloadInTurn ==
    /\ q.state = FRAMESYNC64_STATE_RXPAYLOAD
    /\ HandleSample(NoDetection, (nframes + 1) % 2, "rxpayload")

(* ------------------------------------------------------------------ *)
(* The caller calls framesync64_execute(q, x, n) on n samples.          *)
(* ------------------------------------------------------------------ *)
ExecuteCall(_n) ==
    /\ stack = <<>>
    /\ LET call == framesync64_execute(q, _n, _n)
       IN  /\ q' = call.q
           /\ stack' = <<call.loop>>
    /\ last' = "execute"
    /\ call_frames' = 0
    /\ dbg' = NoDbg
    /\ UNCHANGED <<ndetect, nframes, cb_log, cb_frame, dec, payload_stored,
                   payload_inorder, abandoned, cb_order, trace, ref>>

\* ... on a few samples
Execute == \E n \in 1..MaxN : ExecuteCall(n)

\* ... on MaxN samples
ExecuteBlock == ExecuteCall(MaxN)

(* ------------------------------------------------------------------ *)
(* The loop ends (i == _n) and framesync64_execute() returns: to the    *)
(* caller, or into the DETECT handler (line 289), which returns to the  *)
(* loop that called it, and that loop goes on to its next entry.        *)
(* ------------------------------------------------------------------ *)
ExecuteReturn ==
    /\ stack # <<>>
    /\ Top.i >= Top.n
    /\ stack' = IF Len(stack) > 1
                THEN Append(SubSeq(stack, 1, Len(stack) - 2),
                            Advanced(stack[Len(stack) - 1]))
                ELSE <<>>
    /\ last' = "return"
    /\ dbg' = NoDbg
    /\ UNCHANGED <<q, ndetect, nframes, cb_log, cb_frame, dec, payload_stored,
                   payload_inorder, abandoned, cb_order, call_frames, trace,
                   ref>>

(* ------------------------------------------------------------------ *)
(* The caller calls framesync64_reset(q) between two execute() calls.   *)
(* ------------------------------------------------------------------ *)
Reset ==
    /\ stack = <<>>
    /\ q' = framesync64_reset(q)
    /\ ref' = [ref EXCEPT !.q = framesync64_reset(ref.q)]
    /\ abandoned' = IF q.state # FRAMESYNC64_STATE_DETECTFRAME
                    THEN abandoned + 1 ELSE abandoned
    /\ last' = "reset"
    /\ payload_stored' = 0
    /\ payload_inorder' = TRUE
    /\ trace' = NoTrace
    /\ dbg' = NoDbg
    /\ UNCHANGED <<stack, ndetect, nframes, cb_log, cb_frame, dec, cb_order,
                   call_frames>>

Next ==
    \/ Execute
    \/ ExecuteSeekpn
    \/ ExecuteSeekpnDetectShort
    \/ ExecuteRxpreamble
    \/ ExecuteRxpayload
    \/ ExecuteReturn
    \/ Reset

Spec == Init /\ [][Next]_vars

(* ------------------------------------------------------------------ *)
(* The caller uses the debug interface between two execute() calls.     *)
(* ------------------------------------------------------------------ *)
DebugCall(_after, _tag, _file, _diagnostic) ==
    /\ stack = <<>>
    /\ q' = _after
    /\ ref' = [ref EXCEPT !.q = _after]
    /\ last' = _tag
    /\ dbg' = [NoDbg EXCEPT !.file = _file, !.diagnostic = _diagnostic]
    /\ UNCHANGED <<stack, ndetect, nframes, cb_log, cb_frame, dec,
                   payload_stored, payload_inorder, abandoned, cb_order,
                   call_frames, trace>>

DebugEnable ==
    DebugCall(framesync64_debug_enable(q), "debug_enable", FALSE, FALSE)

DebugDisable ==
    DebugCall(framesync64_debug_disable(q), "debug_disable", FALSE, FALSE)

DebugPrint ==
    LET r == framesync64_debug_print(q)
    IN  DebugCall(r.q, "debug_print", r.file, r.diagnostic)

NextDebug ==
    \/ ExecuteBlock
    \/ ExecuteSeekpn
    \/ ExecuteSeekpnDetectShort
    \/ ExecuteRxpreamble
    \/ ExecuteRxpayload
    \/ ExecuteReturn
    \/ DebugEnable
    \/ DebugDisable
    \/ DebugPrint

SpecDebug == Init /\ [][NextDebug]_vars

(* ------------------------------------------------------------------ *)
(* Frames of different channels: the detector's estimates differ from   *)
(* frame to frame.  The caller's calls are MaxN samples long and the    *)
(* detector's buffer holds MaxBuf samples; the frames pass and fail     *)
(* their CRC in turn.                                                   *)
(* ------------------------------------------------------------------ *)
ExecuteSeekpnDetectEst ==
    SeekpnDetect([v : {"buf"}, buf_len : {MaxBuf}, est : Estimates])

NextEst ==
    \/ ExecuteBlock
    \/ ExecuteSeekpn
    \/ ExecuteSeekpnDetectEst
    \/ ExecuteRxpreamble
    \/ ExecuteRxpayloadInTurn
    \/ ExecuteReturn
    \/ Reset

SpecEst == Init /\ [][NextEst]_vars

(* ------------------------------------------------------------------ *)
(* Back-to-back frames in one call: the caller passes one array long    *)
(* enough for MaxFrames frames, and the detector reports the next frame *)
(* as soon as the receiver seeks one, with a buffer of a few samples or *)
(* of as many as a frame has; the frames pass and fail their CRC in     *)
(* turn; when all the frames are in, the rest of the array is noise.    *)
(* ------------------------------------------------------------------ *)
LongN == MaxFrames * (FrameSamples + 2)

ExecuteLong == ExecuteCall(LongN)

ExecuteSeekpnNoise ==
    /\ ndetect = MaxFrames
    /\ ExecuteSeekpn

NextBurst ==
    \/ ExecuteLong
    \/ ExecuteSeekpnNoise
    \/ ExecuteSeekpnDetect
    \/ ExecuteRxpreamble
    \/ ExecuteRxpayloadInTurn
    \/ ExecuteReturn

SpecBurst == Init /\ [][NextBurst]_vars

(* ================================================================== *)
(* Properties                                                           *)
(* ================================================================== *)
Replaying == Len(stack) > 1
LastCall == cb_log[Len(cb_log)]
Expected == IF q.callback # NULL THEN 1 ELSE 0

(* C1: the state changes only along DETECT -> RX_PREAMBLE -> RX_PAYLOAD  *)
(* -> DETECT.  DETECT is left only to RX_PREAMBLE, by the DETECT handler *)
(* that detects; RX_PREAMBLE is left by a handler only to RX_PAYLOAD;    *)
(* RX_PAYLOAD is left only to DETECT, by the step that decodes the frame *)
(* (and invokes the callback, if there is one); the only other step that *)
(* changes the state is the external reset(), and it leads to DETECT.    *)
C1_TransitionOrder ==
    [][ q'.state # q.state =>
          \/ /\ q.state  = FRAMESYNC64_STATE_DETECTFRAME
             /\ q'.state = FRAMESYNC64_STATE_RXPREAMBLE
             /\ last' = "detect"
          \/ /\ q.state  = FRAMESYNC64_STATE_RXPREAMBLE
             /\ q'.state = FRAMESYNC64_STATE_RXPAYLOAD
             /\ last' = "rxpreamble"
          \/ /\ q.state  = FRAMESYNC64_STATE_RXPAYLOAD
             /\ q'.state = FRAMESYNC64_STATE_DETECTFRAME
             /\ last' = "frame"
             /\ Len(cb_log') = Len(cb_log) + Expected
          \/ /\ q'.state = FRAMESYNC64_STATE_DETECTFRAME
             /\ last' = "reset"
      ]_vars

\* a frame has gone round the whole cycle, with no reset
C1_Witness ==
    /\ last = "frame"
    /\ q.state = FRAMESYNC64_STATE_DETECTFRAME
    /\ abandoned = 0

(* C2: after the end-of-frame step, state == DETECT and all three        *)
(* counters are zero: preamble_counter, payload_counter and mf_counter.  *)
C2_AllCountersZero ==
    last = "frame" =>
        /\ q.state = FRAMESYNC64_STATE_DETECTFRAME
        /\ q.preamble_counter = 0
        /\ q.payload_counter = 0
        /\ q.mf_counter = 0

(* C3: from a detection to the return to DETECT there is exactly one     *)
(* callback invocation if the callback is non-null, made by the step     *)
(* that ends the frame, and none before it; if the callback is NULL      *)
(* there is none, and the frame is consumed (all its payload symbols     *)
(* decoded) and the receiver is back in DETECT all the same.             *)
C3_OneCallbackPerFrame ==
    /\ q.state # FRAMESYNC64_STATE_DETECTFRAME => cb_frame = 0
    /\ last = "frame" =>
          /\ cb_frame = Expected
          /\ q.state = FRAMESYNC64_STATE_DETECTFRAME
          /\ dec.stored = PayloadLen
    /\ Len(cb_log) = Expected * nframes

C3_Witness ==
    /\ last = "frame"
    /\ q.callback # NULL
    /\ cb_frame = 1
    /\ abandoned = 0

(* C4: pilot synchronizer, decoder and callback run only in the step in  *)
(* which payload_counter becomes 630, after 630 symbols were stored at   *)
(* payload_rx[0], ..., payload_rx[629] in this order since the detection;*)
(* before that step fewer than 630 are stored and nothing was decoded.   *)
C4_DecodeOnFullPayload ==
    /\ nframes > 0 =>
          /\ dec.on = PayloadLen
          /\ dec.stored = PayloadLen
          /\ dec.inorder
    /\ payload_inorder
    /\ q.state = FRAMESYNC64_STATE_RXPAYLOAD =>
          /\ payload_stored = q.payload_counter
          /\ payload_stored < PayloadLen
    /\ q.state = FRAMESYNC64_STATE_RXPREAMBLE => payload_stored = 0
    /\ Len(cb_log) <= nframes

C4_Witness ==
    /\ last = "frame"
    /\ dec.on = PayloadLen
    /\ dec.stored = PayloadLen

\* every active loop has handed over its entries 0 .. fed-1, each once and in
\* order; a loop whose DETECT handler is replaying has not moved on
C5_FramesInOrder ==
    \A p \in 1..Len(stack) :
        /\ stack[p].inorder
        /\ stack[p].n = stack[p].len
        /\ stack[p].i <= stack[p].n
        /\ stack[p].fed = IF p < Len(stack) THEN stack[p].i + 1 ELSE stack[p].i

(* C5: on a detection while the loop handles its entry i, the L samples *)
(* of the detector's buffer are handed to the handlers one by one, each  *)
(* once and in the order of the buffer, and the loop that detected goes  *)
(* on to its entry i+1 only when all L have been handed over.            *)
C5_ReplayBeforeNextSample ==
    /\ []C5_FramesInOrder
    /\ [][ /\ (Len(stack') > Len(stack) /\ Replaying') =>
                /\ last' = "detect"
                /\ stack'[Len(stack')].i = 0
                /\ stack'[Len(stack')].fed = 0
                /\ stack'[Len(stack')].len \in BufLens
                /\ stack'[Len(stack)].i = Top.i
           /\ (\E p \in 1..Len(stack) :
                  p < Len(stack) /\ p <= Len(stack') /\ stack'[p].i # stack[p].i) =>
                /\ Len(stack') = Len(stack) - 1
                /\ Top.fed = Top.len
                /\ Top.inorder
      ]_vars

\* the last sample of a long buffer has been replayed
C5_Witness ==
    /\ Replaying
    /\ Top.len = FrameSamples - 1
    /\ Top.fed = Top.len
    /\ Top.inorder

C7_SplitInvisible ==
    stack = <<>> =>
        /\ ref.q = q
        /\ ref.cb_log = cb_log

\* a frame was received in pieces and delivered
C7_Witness ==
    /\ stack = <<>>
    /\ last = "return"
    /\ nframes > 0
    /\ Len(cb_log) > 0
    /\ ref.cb_log = cb_log

(* C8: as long as the detector has reported no detection, the state is   *)
(* DETECT, preamble_counter and payload_counter are 0 and the callback   *)
(* has not been invoked, however many samples were handled.              *)
C8_NoiseOnly ==
    ndetect = 0 =>
        /\ q.state = FRAMESYNC64_STATE_DETECTFRAME
        /\ q.preamble_counter = 0
        /\ q.payload_counter = 0
        /\ cb_log = <<>>
        /\ nframes = 0

C8_Witness ==
    /\ ndetect = 0
    /\ last = "seekpn"
    /\ stack # <<>>
    /\ Top.fed >= 2

(* C9: the step that stores the last payload symbol invokes the callback *)
(* (if there is one) exactly once, whether the decoder reports success   *)
(* or failure; header_valid and payload_valid both equal the decoder's   *)
(* result for this frame, the payload length is 64, and the receiver is  *)
(* in DETECT afterwards.                                                 *)
C9_CallbackOnEitherCrc ==
    (last = "frame" /\ q.callback # NULL) =>
        /\ cb_frame = 1
        /\ cb_log # <<>>
        /\ LastCall.header_valid = dec.crc
        /\ LastCall.payload_valid = dec.crc
        /\ LastCall.payload_len = PayloadBytes
        /\ LastCall.header = HeaderOffset
        /\ LastCall.payload = PayloadOffset
        /\ dec.crc \in DecodeResults
        /\ q.state = FRAMESYNC64_STATE_DETECTFRAME

\* a frame whose CRC failed was delivered
C9_Witness ==
    /\ last = "frame"
    /\ q.callback # NULL
    /\ dec.crc = 0
    /\ LastCall.payload_valid = 0

\* every detection is a completed frame, an abandoned one or the one in
\* progress, and only completed frames invoked the callback
C10_FramesAccounted ==
    /\ Len(cb_log) = Expected * nframes
    /\ ndetect = nframes + abandoned
                 + (IF q.state # FRAMESYNC64_STATE_DETECTFRAME THEN 1 ELSE 0)
    /\ (last = "frame" /\ abandoned > 0) =>
          /\ cb_frame = Expected
          /\ dec.on = PayloadLen
          /\ dec.stored = PayloadLen
          /\ q.state = FRAMESYNC64_STATE_DETECTFRAME

(* C10: an external reset() in RX_PREAMBLE or RX_PAYLOAD leads to DETECT *)
(* with preamble_counter = payload_counter = 0 and invokes no callback,  *)
(* so callbacks are counted by completed frames only; the frame of a     *)
(* following detection is complete (630 payload symbols decoded) and     *)
(* ends in exactly one callback (none if the callback is NULL).          *)
C10_ResetMidFrame ==
    /\ []C10_FramesAccounted
    /\ [][ (last' = "reset" /\ q.state # FRAMESYNC64_STATE_DETECTFRAME) =>
              /\ q'.state = FRAMESYNC64_STATE_DETECTFRAME
              /\ q'.preamble_counter = 0
              /\ q'.payload_counter = 0
              /\ cb_log' = cb_log
              /\ abandoned' = abandoned + 1
      ]_vars

\* a frame was abandoned by reset() and the next one was delivered
C10_Witness ==
    /\ last = "frame"
    /\ abandoned > 0
    /\ q.callback # NULL
    /\ Len(cb_log) = 1
    /\ nframes = 1

\* the callback invocations deliver the decoded frames one by one, in the
\* order of their detections; a frame that ends leaves the receiver seeking
\* the next one
C11_InArrivalOrder ==
    /\ Len(cb_order) = Len(cb_log)
    /\ Len(cb_log) = Expected * nframes
    /\ \A j \in 1..Len(cb_order) :
          /\ cb_order[j] <= ndetect
          /\ j > 1 => cb_order[j - 1] < cb_order[j]
          /\ abandoned = 0 => cb_order[j] = j
    /\ call_frames <= nframes
    /\ last = "frame" =>
          /\ q.state = FRAMESYNC64_STATE_DETECTFRAME
          /\ stack # <<>>
          /\ call_frames >= 1
          /\ cb_frame = Expected
          /\ q.callback # NULL => cb_order[Len(cb_order)] = ndetect

(* C11: when one execute() call supplies the samples of several frames,  *)
(* each frame has its own callback invocation, the invocations come in   *)
(* the order in which the frames arrived, and after each the receiver is *)
(* in DETECT and the same call goes on with its remaining samples, which *)
(* go to the DETECT handler.                                             *)
C11_FramesInOneCall ==
    /\ []C11_InArrivalOrder
    /\ [][ (last = "frame" /\ InLoop) =>
              /\ last' \in {"seekpn", "detect"}
              /\ Len(stack') >= Len(stack)
              /\ call_frames' = call_frames
              /\ cb_log' = cb_log
      ]_vars

\* the second frame of one long call has been delivered by the caller's loop
C11_Witness ==
    /\ last = "frame"
    /\ Len(stack) = 1
    /\ Top.n = LongN
    /\ call_frames = 2
    /\ q.callback # NULL
    /\ cb_order = <<1, 2>>

\* the statistics the code writes for a frame whose detection gave _est
StatsOf(_est) ==
    [evm |-> 0, rssi |-> 20 * Log10(_est.gamma), cfo |-> _est.dphi,
     num_framesyms |-> NumFrameSyms]

(* C12: the step that ends a frame runs pilot sync and decoder on the    *)
(* 630 symbols, then writes the statistics, then invokes the callback,   *)
(* then resets.  The callback gets the CRC result of this decode and the *)
(* statistics of this frame (rssi of its gain, cfo the NCO frequency set *)
(* at its detection, which the reset clears); while it runs the state is *)
(* RX_PAYLOAD and payload_counter is 630; when the step is over the      *)
(* receiver is reset and its statistics are those the callback got.      *)
C12_EndOfFrameOrder ==
    /\ \A j \in 1..Len(cb_log) :
          /\ cb_log[j].state = FRAMESYNC64_STATE_RXPAYLOAD
          /\ cb_log[j].payload_counter = PayloadLen
    /\ (last = "frame" /\ q.callback # NULL) =>
          /\ dec.on = PayloadLen
          /\ LastCall.payload_valid = dec.crc
          /\ LastCall.framestats = StatsOf(trace.est)
          /\ q.framestats = LastCall.framestats
          /\ q.state = FRAMESYNC64_STATE_DETECTFRAME
          /\ q.payload_counter = 0
          /\ q.preamble_counter = 0
          /\ q.mixer = [frequency |-> 0, phase |-> 0]

\* the second frame's callback got other statistics than the first frame's
C12_Witness ==
    /\ last = "frame"
    /\ Len(cb_log) = 2
    /\ LastCall.framestats # cb_log[1].framestats
    /\ LastCall.framestats.cfo # 0
    /\ LastCall.state = FRAMESYNC64_STATE_RXPAYLOAD
    /\ q.state = FRAMESYNC64_STATE_DETECTFRAME

(* C13: counting the samples stepped after a detection from 1, a symbol  *)
(* comes out exactly on samples 1, 3, 5, ..., in the first frame after   *)
(* create and in every later one.  (The trace numbers the first          *)
(* MaxPos - 1 samples of a frame.)                                       *)
C13_SymbolsOnOddSamples ==
    trace.frame_pos \in 1..(MaxPos - 1) =>
        (trace.symbol <=> trace.frame_pos % 2 = 1)

\* C13, the later frames alone: a receiver that has decoded a frame
\* produces a symbol on the first sample stepped in the next frame
C13_SecondFrameAligned ==
    (nframes >= 1 /\ trace.frame_pos = 1) => trace.symbol

\* preamble_counter in each state of the receiver
C14_Bounded ==
    /\ q.preamble_counter \in 0..(PreambleLen + 2 * m)
    /\ q.state = FRAMESYNC64_STATE_DETECTFRAME => q.preamble_counter = 0
    /\ q.state = FRAMESYNC64_STATE_RXPREAMBLE =>
          q.preamble_counter < PreambleLen + 2 * m
    /\ q.state = FRAMESYNC64_STATE_RXPAYLOAD =>
          q.preamble_counter = PreambleLen + 2 * m

(* C14: preamble_counter is at most 64 + 2m = 70 in every state; it      *)
(* becomes 70 only in the step that takes RX_PREAMBLE to RX_PAYLOAD;     *)
(* while the state is RX_PREAMBLE it is below 70 and does not decrease.  *)
C14_PreambleCounter ==
    /\ []C14_Bounded
    /\ [][ /\ (q'.preamble_counter = PreambleLen + 2 * m
                 /\ q.preamble_counter # PreambleLen + 2 * m) =>
                 /\ q.state  = FRAMESYNC64_STATE_RXPREAMBLE
                 /\ q'.state = FRAMESYNC64_STATE_RXPAYLOAD
                 /\ q.preamble_counter = PreambleLen + 2 * m - 1
           /\ (q.state = FRAMESYNC64_STATE_RXPREAMBLE
                 /\ q'.state = FRAMESYNC64_STATE_RXPREAMBLE) =>
                 /\ q'.preamble_counter >= q.preamble_counter
                 /\ q'.preamble_counter <= q.preamble_counter + 1
      ]_vars

\* the step that counted the 70th symbol has left RX_PREAMBLE
C14_Witness ==
    /\ last = "rxpreamble"
    /\ q.preamble_counter = PreambleLen + 2 * m
    /\ q.state = FRAMESYNC64_STATE_RXPAYLOAD

(* C15: payload_counter is at most 630; it is 630 only inside the step   *)
(* that decodes (the decoder ran at 630, the callback saw 630) and in    *)
(* every state between two samples it is below 630; the writes to        *)
(* payload_rx of a frame go to the entries 0, 1, ... in turn, at most    *)
(* 630 of them, so each to an index in 0..629.                           *)
C15_PayloadCounter ==
    /\ q.payload_counter \in 0..(PayloadLen - 1)
    /\ q.state # FRAMESYNC64_STATE_RXPAYLOAD => q.payload_counter = 0
    /\ q.state = FRAMESYNC64_STATE_RXPAYLOAD =>
          payload_stored = q.payload_counter
    /\ payload_inorder
    /\ payload_stored \in 0..PayloadLen
    /\ dec.on \in {-1, PayloadLen}
    /\ \A j \in 1..Len(cb_log) : cb_log[j].payload_counter = PayloadLen

\* entry 629 has been written and the counter is back at 0
C15_Witness ==
    /\ last = "frame"
    /\ payload_stored = PayloadLen
    /\ dec.on = PayloadLen
    /\ q.payload_counter = 0

(* C16: in RX_PREAMBLE the symbols 0..5 of a frame are not stored and    *)
(* symbol n >= 6 is stored at preamble_rx[n - 6]: every index written is *)
(* in 0..63, the writes go to 0, 1, 2, ... in turn, and when the         *)
(* preamble is complete each of the 64 entries has been written once.    *)
C16_PreambleStored ==
    /\ trace.preamble_inorder
    /\ trace.preamble_stored \in 0..PreambleLen
    /\ trace.preamble_wrote \in -1..(PreambleLen - 1)
    /\ q.state = FRAMESYNC64_STATE_RXPREAMBLE =>
          trace.preamble_stored =
             IF q.preamble_counter >= 2 * m
             THEN q.preamble_counter - 2 * m ELSE 0
    /\ (last = "rxpreamble" /\ trace.symbol) =>
          trace.preamble_wrote =
             IF q.preamble_counter - 1 >= 2 * m
             THEN q.preamble_counter - 1 - 2 * m ELSE -1
    /\ q.state = FRAMESYNC64_STATE_RXPAYLOAD =>
          trace.preamble_stored = PreambleLen

\* the 70th symbol has been stored in the last entry
C16_Witness ==
    /\ last = "rxpreamble"
    /\ q.state = FRAMESYNC64_STATE_RXPAYLOAD
    /\ trace.preamble_stored = PreambleLen
    /\ trace.preamble_wrote = PreambleLen - 1

\* the coarse estimates the receiver holds
EstOf(_q) == [tau |-> _q.tau_hat, gamma |-> _q.gamma_hat,
              dphi |-> _q.dphi_hat, phi |-> _q.phi_hat]

\* throughout a frame the receiver holds the estimates the detector had at
\* the frame's detection, and the callback's rssi is that of their gain
C17_ThisFramesEstimates ==
    /\ q.state # FRAMESYNC64_STATE_DETECTFRAME => EstOf(q) = trace.est
    /\ last = "frame" => EstOf(q) = trace.est
    /\ (last = "frame" /\ q.callback # NULL) =>
          LastCall.framestats.rssi = 20 * Log10(trace.est.gamma)

(* C17: tau_hat, phi_hat, dphi_hat and gamma_hat are written by the      *)
(* DETECT handler at a detection, with the detector's estimates, and by  *)
(* nothing else: no RX_PREAMBLE step, no RX_PAYLOAD step (the end of     *)
(* frame included) and no reset() changes them; the rssi the callback    *)
(* gets is computed from the gamma_hat of this frame's detection.        *)
C17_EstimatesOncePerFrame ==
    /\ []C17_ThisFramesEstimates
    /\ [][ /\ EstOf(q') # EstOf(q) =>
                 /\ last' = "detect"
                 /\ q.state  = FRAMESYNC64_STATE_DETECTFRAME
                 /\ q'.state = FRAMESYNC64_STATE_RXPREAMBLE
                 /\ ndetect' = ndetect + 1
           /\ last' = "detect" => EstOf(q') = trace'.est
           /\ last' \in {"rxpreamble", "rxpayload", "frame", "reset"} =>
                 EstOf(q') = EstOf(q)
      ]_vars

\* a frame was abandoned by reset(), the next one came with another gain
\* and has been delivered with the rssi of that gain
C17_Witness ==
    /\ last = "frame"
    /\ abandoned = 1
    /\ ndetect = 2
    /\ q.callback # NULL
    /\ q.gamma_hat = 100
    /\ LastCall.framestats.rssi = 40

(* C18: when the replay of the detector's buffer begins (no replayed     *)
(* sample has been stepped yet) the hand-off is complete: the estimates  *)
(* are read, the filter's scale is 0.5/gamma_hat, pfb_index is 0, the    *)
(* NCO has frequency dphi_hat and phase phi_hat, the state is            *)
(* RX_PREAMBLE; and every per-symbol step runs the filter with index 0,  *)
(* whatever tau_hat is.                                                  *)
C18_HandOffComplete ==
    /\ last = "detect" =>
          /\ Replaying
          /\ Top.i = 0
          /\ Top.fed = 0
          /\ trace.frame_pos = 0
          /\ q.state = FRAMESYNC64_STATE_RXPREAMBLE
          /\ q.preamble_counter = 0
          /\ EstOf(q) = trace.est
          /\ q.mf.scale = HalfOver(trace.est.gamma)
          /\ q.pfb_index = 0
          /\ q.mixer = [frequency |-> trace.est.dphi, phase |-> trace.est.phi]
    /\ trace.pfb_index \in {-1, 0}
    /\ q.state # FRAMESYNC64_STATE_DETECTFRAME => q.pfb_index = 0

\* the first replayed sample of a frame with negative tau_hat has been
\* stepped, through the filter of index 0
C18_Witness ==
    /\ Replaying
    /\ trace.frame_pos = 1
    /\ trace.pfb_index = 0
    /\ q.tau_hat < 0
    /\ q.mixer.phase = trace.est.phi + trace.est.dphi

\* the step before handed a sample to a handler
Handled == last \in {"seekpn", "detect", "rxpreamble", "rxpayload", "frame"}

(* C19: with debugging enabled every sample of the caller's array is     *)
(* pushed to the debug ring when it is dispatched, and no other sample   *)
(* is pushed: a push is always of a sample of the caller's array, also   *)
(* while the detector's buffer is replayed.                              *)
C19_OnlyCallerSamplesPushed ==
    /\ (Handled /\ dbg.caller /\ q.debug_enabled # 0) => dbg.pushed
    /\ dbg.pushed => dbg.caller

\* C19, the caller's samples alone: with debugging enabled each sample of
\* the caller's array is pushed when it is dispatched
C19_CallerSamplesPushed ==
    (Handled /\ dbg.caller /\ q.debug_enabled # 0) => dbg.pushed

(* C20: when debug_enable() has returned, debug_enabled is 1, whatever   *)
(* calls of debug_enable() and debug_disable() came before; and          *)
(* debug_print() on a receiver whose debugging was never enabled writes  *)
(* no file (and leaves the receiver as it was).                          *)
C20_EnableActivates ==
    /\ last = "debug_enable" => q.debug_enabled = 1
    /\ (last = "debug_print" /\ q.debug_objects_created = 0) => ~dbg.file

\* C20, the parts that hold: debug_enable() on an enabled receiver changes
\* nothing, debug_print() changes nothing and writes its file exactly if
\* debug_enable() was ever called, its diagnostic otherwise
C20_IdempotentAndPrint ==
    [][ /\ (last' = "debug_enable" /\ q.debug_enabled = 1) => q' = q
        /\ last' = "debug_print" =>
              /\ q' = q
              /\ dbg'.file = (q.debug_objects_created # 0)
              /\ dbg'.diagnostic = (q.debug_objects_created = 0)
    ]_vars

====
